---------------------------- MODULE Spec2Model ----------------------------
(***************************************************************************)
(* ngTranscription: a browser client that streams microphone audio over a  *)
(* WebSocket (WebSocketService, AudioService, TranscriptionComponent) and  *)
(* a Node server that records the received audio to a WAV file (server.js, *)
(* AudioRecorder).                                                         *)
(*                                                                         *)
(* Spec     : the client.  One action per browser task: a click, the       *)
(*            resolution of getUserMedia, a socket event, a timer, an       *)
(*            audio buffer.  Handlers run to completion, so each action is *)
(*            the whole handler with every call it makes.                  *)
(* SpecRec  : the server's recorder and its console / connection handlers. *)
(***************************************************************************)
EXTENDS Integers, Sequences, FiniteSets, TLC

VARIABLES
    \* ---- WebSocketService (src/unnamed/part_000:66-196)
    status,          \* statusSubject.value
    retryCount,      \* this.retryCount
    ws,              \* this.ws: "null" or the readyState phase of the socket it refers to
    orphans,         \* live sockets this.ws no longer refers to: phase -> how many
    retryTimeout,    \* this.retryTimeout: "null", "pending" (id of a pending timer), "fired" (id of a timer that ran)
    staleTimers,     \* pending timers whose id was overwritten in this.retryTimeout
    lastSched,       \* <<retryCount after the increment, delay>> of the last setTimeout call
    ctorThrows,      \* environment: new WebSocket(serverUrl) throws (fixed for a page and URL)
    \* ---- AudioService (src/unnamed/part_000:216-360)
    mediaStream,     \* this.mediaStream !== null
    audioContext,    \* this.audioContext !== null
    source,          \* this.source !== null
    processor,       \* this.processor !== null
    audioIsRecording,\* AudioService.isRecording
    unreleased,      \* granted MediaStreams that were never stopped and that this.mediaStream does not refer to
    \* ---- TranscriptionComponent (src/src/app/transcription/transcription.component.ts:14-105)
    networkStatus,   \* this.networkStatus
    subscribed,      \* statusSubscription is live (between ngOnInit and ngOnDestroy)
    pendingGrants,   \* connect() calls suspended in await getUserMedia(...)
    \* ---- observation (history, not program state)
    lastOp,          \* the handler that ran last
    txd,             \* the last handler passed a frame to WebSocket.send
    trace,           \* events since the last connect() made from the quiescent Disconnected state
    \* ---- server.js (src/server/server.js:20-30)
    isRunning,       \* isRunning
    closing,         \* wss.close(...) was called and its callback has not run yet
    clients,         \* connections  whose 'close' event has not been delivered yet
    stopWait,        \* streams whose stopRecording() promise a stopServer() call awaits
    totalPacketsReceived, \* totalPacketsReceived
    totalBytesReceived,   \* totalBytesReceived
    stats,           \* per connection: packetCount and totalBytes of its handler closure
    \* ---- AudioRecorder (src/src/app/transcription/transcription.component.ts:120-460)
    isRecording,     \* this.isRecording
    recordingFile,   \* this.recordingFile: 0 (null) or the number of the file
    recordingStream, \* this.recordingStream: 0 (null) or the number of the stream
    recordingPackets,\* this.recordingPackets
    recordingBytes,  \* this.recordingBytes
    audioFormat,     \* this.audioFormat
    sessions,        \* the write streams created so far, each with its file; stream i writes file i
    \* ---- observation (history, not program state)
    lastCmd          \* the server handler that ran last

clientVars == <<status, retryCount, ws, orphans, retryTimeout, staleTimers, lastSched,
                ctorThrows, mediaStream, audioContext, source, processor,
                audioIsRecording, unreleased, networkStatus, subscribed,
                pendingGrants, lastOp, txd, trace>>

recVars == <<isRunning, closing, clients, stopWait, totalPacketsReceived,
             totalBytesReceived, stats, isRecording, recordingFile,
             recordingStream, recordingPackets, recordingBytes, audioFormat, sessions,
             lastCmd>>

\* One audio packet on its way from createAudioPacket to the server's decoder
VARIABLES
    codec

\* Streams whose last write() returned false and that have not emitted 'drain'
VARIABLES
    needDrain

vars == <<clientVars, recVars, codec, needDrain>>

\* ------------------------------------------------------------------ bounds
MaxSockets == 2      \* live sockets (this.ws and orphans) at any time
MaxTimers == 2       \* pending retry timers at any time
MaxPending == 2      \* getUserMedia requests in flight
MaxUnreleased == 1   \* granted streams lost without being stopped
MaxPendingLive == 1  \* getUserMedia requests in flight, under fairness
MaxSessions == 2     \* recordings started (files created)
MaxPackets == 2      \* packets counted in one recording
MaxClients == 2      \* client connections, open at once or one after the other
MaxReceived == 2     \* AudioEvent packets received by the server
MaxSamples == 2      \* samples in one framed packet
MaxBytes == 3        \* bytes in a payload of another sender

\* --------------------------------------------------------------- constants
maxRetries == 4
NormalClosure == 1000
\* close codes a close event can carry: the normal closure, an abnormal closure
CloseCodes == {NormalClosure, 1006}
BaseDelay == 1000
DelayCap == 10000

DISCONNECTED == "disconnected"
CONNECTING == "connecting"
CONNECTED == "connected"
RECONNECTING == "reconnecting"
ERROR == "error"
ConnectionStatus == {DISCONNECTED, CONNECTING, CONNECTED, RECONNECTING, ERROR}

\* readyState of a live socket.  "aborting" is readyState CLOSING of a socket
\* that close() was called on before it opened; "closing" is CLOSING of one that was open.
Phases == {"connecting", "open", "closing", "aborting"}
NoOrphans == [p \in Phases |-> 0]

\* ------------------------------------------------------- the client's state
\* The client's fields as one record, so that a handler is the composition of
\* the methods it calls.
Client ==
    [status |-> status, retryCount |-> retryCount, ws |-> ws, orphans |-> orphans,
     retryTimeout |-> retryTimeout, staleTimers |-> staleTimers, lastSched |-> lastSched,
     ctorThrows |-> ctorThrows, mediaStream |-> mediaStream, audioContext |-> audioContext,
     source |-> source, processor |-> processor, audioIsRecording |-> audioIsRecording,
     unreleased |-> unreleased, networkStatus |-> networkStatus, subscribed |-> subscribed,
     pendingGrants |-> pendingGrants, txd |-> FALSE, trace |-> trace]

Commit(c, op) ==
    /\ status' = c.status
    /\ retryCount' = c.retryCount
    /\ ws' = c.ws
    /\ orphans' = c.orphans
    /\ retryTimeout' = c.retryTimeout
    /\ staleTimers' = c.staleTimers
    /\ lastSched' = c.lastSched
    /\ ctorThrows' = c.ctorThrows
    /\ mediaStream' = c.mediaStream
    /\ audioContext' = c.audioContext
    /\ source' = c.source
    /\ processor' = c.processor
    /\ audioIsRecording' = c.audioIsRecording
    /\ unreleased' = c.unreleased
    /\ networkStatus' = c.networkStatus
    /\ subscribed' = c.subscribed
    /\ pendingGrants' = c.pendingGrants
    /\ txd' = c.txd
    /\ trace' = c.trace
    /\ lastOp' = op
    /\ UNCHANGED <<recVars, codec, needDrain>>

OrphanCount(o) == o["connecting"] + o["open"] + o["closing"] + o["aborting"]
LiveSockets(c) == (IF c.ws = "null" THEN 0 ELSE 1) + OrphanCount(c.orphans)
PendingTimers(c) == (IF c.retryTimeout = "pending" THEN 1 ELSE 0) + c.staleTimers

\* The model's bounds: a handler whose result exceeds one is not taken.
WithinBounds(c) ==
    /\ LiveSockets(c) <= MaxSockets
    /\ PendingTimers(c) <= MaxTimers
    /\ c.pendingGrants <= MaxPending
    /\ c.unreleased <= MaxUnreleased

\* ---------------------------------------------------------------- history
\* trace = <<>>: not recording.  A recording starts with "connect" and ends
\* with the first "connected" or "disconnected"; the event after that stops it.
\* Entries: a status delivered on the status stream, a close event with its
\* code, a retry timer with its delay.
StatusEntry(v) == [k |-> "status", s |-> v, n |-> 0]
CloseEntry(code) == [k |-> "close", s |-> "", n |-> code]
TimerEntry(delay) == [k |-> "timer", s |-> "", n |-> delay]
StartEntry == [k |-> "connect", s |-> "", n |-> 0]

TraceEnded(t) == t # <<>> /\ t[Len(t)].s \in {CONNECTED, DISCONNECTED}

Log(c, e) ==
    IF c.trace = <<>> THEN c
    ELSE IF TraceEnded(c.trace) THEN [c EXCEPT !.trace = <<>>]
    ELSE [c EXCEPT !.trace = Append(@, e)]

Quiescent(c) ==
    /\ c.status = DISCONNECTED
    /\ LiveSockets(c) = 0
    /\ PendingTimers(c) = 0

\* ----------------------------------------------------------- AudioService
\* stopMicrophone(): every field is released if set; the tracks of the stream
\* this.mediaStream refers to are stopped.
stopMicrophone(c) ==
    [c EXCEPT !.audioIsRecording = FALSE,
              !.processor = FALSE,
              !.source = FALSE,
              !.audioContext = FALSE,
              !.mediaStream = FALSE]

\* startAudioCapture().  outcome names the browser call that throws, if one does:
\* "ok", "context" (new AudioContext), "source" (createMediaStreamSource),
\* "processor" (createScriptProcessor).  The result's `threw` says that the
\* exception left the method (it is rethrown by the catch).
CaptureOutcomes == {"ok", "context", "source", "processor"}

startAudioCapture(c, outcome) ==
    IF ~c.mediaStream \/ c.audioIsRecording THEN [c |-> c, threw |-> FALSE]
    ELSE IF outcome = "context" THEN [c |-> c, threw |-> TRUE]
    ELSE IF outcome = "source" THEN
        [c |-> [c EXCEPT !.audioContext = TRUE], threw |-> TRUE]
    ELSE IF outcome = "processor" THEN
        [c |-> [c EXCEPT !.audioContext = TRUE, !.source = TRUE], threw |-> TRUE]
    ELSE
        [c |-> [c EXCEPT !.audioContext = TRUE, !.source = TRUE, !.processor = TRUE,
                         !.audioIsRecording = TRUE],
         threw |-> FALSE]

\* ------------------------------------------------- TranscriptionComponent
\* The subscriber of ngOnInit, called synchronously by statusSubject.next.
Observer(c, v) ==
    IF ~c.subscribed THEN c
    ELSE LET c1 == [c EXCEPT !.networkStatus = v]
         IN IF v = DISCONNECTED THEN stopMicrophone(c1) ELSE c1

\* ------------------------------------------------------- WebSocketService
\* statusSubject.next(v)
StatusNext(c, v) == Observer(Log([c EXCEPT !.status = v], StatusEntry(v)), v)

clearRetryTimeout(c) ==
    IF c.retryTimeout # "null" THEN [c EXCEPT !.retryTimeout = "null"] ELSE c

Min(a, b) == IF a < b THEN a ELSE b

\* Variant of RetryDelay: linear instead of exponential backoff
RetryDelay_Linear(n) == Min(BaseDelay * n, DelayCap)

\* Math.min(1000 * Math.pow(2, retryCount - 1), 10000)
RetryDelay(n) == Min(BaseDelay * 2 ^ (n - 1), DelayCap)

\* Variant of handleReconnection: gives up one retry earlier
handleReconnection_OneFewer(c) ==
    IF c.retryCount < maxRetries - 1 THEN
        LET n == c.retryCount + 1
            delay == RetryDelay(n)
        IN Log([c EXCEPT !.retryCount = n,
                         !.lastSched = <<n, delay>>,
                         !.staleTimers = IF c.retryTimeout = "pending" THEN @ + 1 ELSE @,
                         !.retryTimeout = "pending"],
               TimerEntry(delay))
    ELSE
        [StatusNext(c, DISCONNECTED) EXCEPT !.retryCount = 0]

\* Variant of handleReconnection: never gives up
handleReconnection_NeverGivesUp(c) ==
    LET n == Min(c.retryCount + 1, maxRetries)
        delay == RetryDelay(n)
    IN Log([c EXCEPT !.retryCount = n,
                     !.lastSched = <<n, delay>>,
                     !.staleTimers = IF c.retryTimeout = "pending" THEN @ + 1 ELSE @,
                     !.retryTimeout = "pending"],
           TimerEntry(delay))

handleReconnection(c) ==
    IF c.retryCount < maxRetries THEN
        LET n == c.retryCount + 1
            delay == RetryDelay(n)
        IN Log([c EXCEPT !.retryCount = n,
                         !.lastSched = <<n, delay>>,
                         \* the id of a timer still pending is overwritten, not cleared
                         !.staleTimers = IF c.retryTimeout = "pending" THEN @ + 1 ELSE @,
                         !.retryTimeout = "pending"],
               TimerEntry(delay))
    ELSE
        [StatusNext(c, DISCONNECTED) EXCEPT !.retryCount = 0]

\* Variant of attemptConnection: a retry announces itself only after a failure
\* that delivered no Error
attemptConnection_QuietRetry(c) ==
    LET c1 == IF c.retryCount > 0 /\ c.status = ERROR THEN c
              ELSE StatusNext(c, IF c.retryCount > 0 THEN RECONNECTING ELSE CONNECTING)
    IN IF c1.ctorThrows THEN handleReconnection(StatusNext(c1, ERROR))
       ELSE [c1 EXCEPT !.orphans = IF c1.ws = "null" THEN @
                                   ELSE [@ EXCEPT ![c1.ws] = @ + 1],
                       !.ws = "connecting"]

\* attemptConnection(): the socket this.ws referred to stays live, with its
\* handlers, when this.ws is overwritten.
attemptConnection(c) ==
    LET c1 == StatusNext(c, IF c.retryCount > 0 THEN RECONNECTING ELSE CONNECTING)
    IN IF c1.ctorThrows THEN handleReconnection(StatusNext(c1, ERROR))
       ELSE [c1 EXCEPT !.orphans = IF c1.ws = "null" THEN @
                                   ELSE [@ EXCEPT ![c1.ws] = @ + 1],
                       !.ws = "connecting"]

\* Variant of connect: without the early return for a socket still CONNECTING
connect_NoInProgressCheck(c) ==
    IF c.ws = "open" THEN c
    ELSE attemptConnection([c EXCEPT !.retryCount = 0,
                                     !.trace = IF Quiescent(c) THEN <<StartEntry>> ELSE <<>>])

connect(c) ==
    IF c.ws = "open" THEN c
    ELSE IF c.ws = "connecting" THEN c
    ELSE attemptConnection([c EXCEPT !.retryCount = 0,
                                     !.trace = IF Quiescent(c) THEN <<StartEntry>> ELSE <<>>])

\* disconnect(): ws.close(1000, ...) leaves the socket live (CLOSING) until its
\* close event; this.ws stops referring to it.
disconnect(c) ==
    LET c1 == [clearRetryTimeout(c) EXCEPT !.retryCount = 0, !.trace = <<>>]
        c2 == IF c1.ws = "null" THEN c1
              ELSE [c1 EXCEPT !.orphans =
                                  LET p == IF c1.ws = "connecting" THEN "aborting"
                                           ELSE "closing"
                                  IN [@ EXCEPT ![p] = @ + 1],
                              !.ws = "null"]
    IN StatusNext(c2, DISCONNECTED)

\* Variant of sendJson: sends on any socket, whatever its readyState
sendJson_NoReadyCheck(c) == [c EXCEPT !.txd = (c.ws # "null")]

\* sendJson(data)
sendJson(c) == [c EXCEPT !.txd = (c.ws = "open")]

\* ------------------------------------------------------- socket handlers
\* A socket is named by where it is: "ws" (the one this.ws refers to) or the
\* phase of an orphan.  Every socket carries the same four handlers, bound in
\* attemptConnection, and they act on this.ws whatever socket fires them.
SocketNames == {"ws"} \cup Phases
HasSocket(c, x) == IF x = "ws" THEN c.ws # "null" ELSE c.orphans[x] > 0
PhaseOf(c, x) == IF x = "ws" THEN c.ws ELSE x
SetPhase(c, x, p) ==
    IF x = "ws" THEN [c EXCEPT !.ws = p]
    ELSE [c EXCEPT !.orphans = [@ EXCEPT ![x] = @ - 1, ![p] = @ + 1]]
RemoveSocket(c, x) ==
    IF x = "ws" THEN [c EXCEPT !.ws = "null"]
    ELSE [c EXCEPT !.orphans = [@ EXCEPT ![x] = @ - 1]]

\* Variant of onopen: the retry count survives a successful open
onopen_KeepsCount(c) ==
    clearRetryTimeout(StatusNext(c, CONNECTED))

\* ws.onopen
onopen(c) ==
    clearRetryTimeout(StatusNext([c EXCEPT !.retryCount = 0], CONNECTED))

\* Variant of onclose: retries whatever the close code
onclose_AlwaysRetry(c, code) ==
    LET c1 == IF c.ws = "null" THEN c
              ELSE [c EXCEPT !.orphans = [@ EXCEPT ![c.ws] = @ + 1], !.ws = "null"]
        c2 == Log(c1, CloseEntry(code))
    IN handleReconnection(c2)

\* ws.onclose, of a socket already taken out of the live ones.  this.ws = null
\* drops the reference to whatever socket this.ws refers to now.
onclose(c, code) ==
    LET c1 == IF c.ws = "null" THEN c
              ELSE [c EXCEPT !.orphans = [@ EXCEPT ![c.ws] = @ + 1], !.ws = "null"]
        c2 == Log(c1, CloseEntry(code))
    IN IF code # NormalClosure THEN handleReconnection(c2)
       ELSE StatusNext(c2, DISCONNECTED)

\* ws.onerror
onerror(c) == StatusNext(c, ERROR)

\* ----------------------------------------------------------- AudioRecorder
HeaderSize == 44
RiffOverhead == 36
BytesPerSample == 2

\* audioFormat: the constructor's literal, audio-config.json, or what a
\* packet's content-type header carried
Formats == {"constructor", "config", "packet"}
PacketFormats == {"config", "packet"}
\* samples decoded from one payload (a payload of one byte decodes to none)
PacketSamples == {0, 1}
Packets == [samples : PacketSamples, format : PacketFormats]

\* The server's fields as one record, so that a handler is the composition of
\* the functions it calls.
Server ==
    [isRunning |-> isRunning, closing |-> closing, clients |-> clients,
     stopWait |-> stopWait, totalPacketsReceived |-> totalPacketsReceived,
     totalBytesReceived |-> totalBytesReceived, stats |-> stats,
     isRecording |-> isRecording, recordingFile |-> recordingFile,
     recordingStream |-> recordingStream, recordingPackets |-> recordingPackets,
     recordingBytes |-> recordingBytes, audioFormat |-> audioFormat, sessions |-> sessions]

AssignRec(r, cmd) ==
    /\ isRunning' = r.isRunning
    /\ closing' = r.closing
    /\ clients' = r.clients
    /\ stopWait' = r.stopWait
    /\ totalPacketsReceived' = r.totalPacketsReceived
    /\ totalBytesReceived' = r.totalBytesReceived
    /\ stats' = r.stats
    /\ isRecording' = r.isRecording
    /\ recordingFile' = r.recordingFile
    /\ recordingStream' = r.recordingStream
    /\ recordingPackets' = r.recordingPackets
    /\ recordingBytes' = r.recordingBytes
    /\ audioFormat' = r.audioFormat
    /\ sessions' = r.sessions
    /\ lastCmd' = cmd
    /\ UNCHANGED <<clientVars, codec>>

\* A handler during which no write() returned false and no 'drain' was emitted
CommitRec(r, cmd) == AssignRec(r, cmd) /\ UNCHANGED needDrain

\* A write stream just returned by fs.createWriteStream, with the file it writes:
\*   opened        the 'open' event was delivered (the file exists)
\*   state         "writable", "ending" (end() called), "finished", "errored"
\*   headerWritten the closure variable of startRecording
\*   headers       WAV headers written to the stream
\*   written       sample bytes written to the stream
\*   writes        write calls that carried samples (history)
\*   samples       samples those calls carried (history)
\*   stopping      stopRecording registered its 'finish' and 'error' handlers
\*   outcome       how the 'finish' handler left the file
\*   ioFailed      readFileSync or writeFileSync threw in the 'finish' handler (history)
\*   promise       the promise stopRecording returned for this stream:
\*                 "none", "pending", "resolved", "rejected"
\*   riffSize, dataSize   the size fields of the header in the file
NewStream ==
    [opened |-> FALSE, state |-> "writable", headerWritten |-> FALSE, headers |-> 0,
     written |-> 0, writes |-> 0, samples |-> 0, stopping |-> FALSE, outcome |-> "none",
     ioFailed |-> FALSE, promise |-> "none", riffSize |-> 0, dataSize |-> 0,
     \* sample bytes the stream had taken when the header was last written to it
     headerAt |-> 0]

writeWavHeader(st, dataSize) ==
    [st EXCEPT !.headers = @ + 1, !.riffSize = RiffOverhead + dataSize, !.dataSize = dataSize,
               !.headerAt = st.written]

\* Variant of startRecording: without the check for a recording in progress
startRecording_NoBusyCheck(r, serverRunning, throws) ==
    IF ~serverRunning THEN r
    ELSE IF throws
    THEN [r EXCEPT !.isRecording = FALSE, !.recordingStream = 0, !.recordingFile = 0]
    ELSE LET id == Len(r.sessions) + 1
         IN [r EXCEPT !.recordingFile = id, !.isRecording = TRUE, !.recordingPackets = 0,
                      !.recordingBytes = 0, !.audioFormat = "config", !.recordingStream = id,
                      !.sessions = Append(@, [writeWavHeader(NewStream, 0)
                                                EXCEPT !.headerWritten = TRUE])]

\* startRecording(serverRunning); throws: fs.mkdirSync throws
startRecording(r, serverRunning, throws) ==
    IF r.isRecording THEN r
    ELSE IF ~serverRunning THEN r
    ELSE IF throws
    THEN [r EXCEPT !.isRecording = FALSE, !.recordingStream = 0, !.recordingFile = 0]
    ELSE LET id == Len(r.sessions) + 1
             st == NewStream
             \* a stream is writable as soon as it is created
             st1 == IF st.state = "writable" /\ ~st.headerWritten
                    THEN [writeWavHeader(st, 0) EXCEPT !.headerWritten = TRUE]
                    ELSE st
         IN [r EXCEPT !.recordingFile = id, !.isRecording = TRUE, !.recordingPackets = 0,
                      !.recordingBytes = 0, !.audioFormat = "config", !.recordingStream = id,
                      !.sessions = Append(@, st1)]

\* Variant of stopRecording: resolves when end() was called, without waiting
\* for 'finish'
stopRecording_ResolvesAtOnce(r) ==
    IF ~r.isRecording THEN [r |-> r, promise |-> "resolved", stream |-> 0]
    ELSE IF r.recordingStream = 0
    THEN [r |-> [r EXCEPT !.isRecording = FALSE, !.recordingStream = 0, !.recordingFile = 0],
          promise |-> "rejected", stream |-> 0]
    ELSE [r |-> [r EXCEPT !.isRecording = FALSE,
                          !.sessions[r.recordingStream] =
                              [@ EXCEPT !.stopping = TRUE, !.state = "ending",
                                        !.promise = "resolved"]],
          promise |-> "resolved", stream |-> r.recordingStream]

\* stopRecording(): the recorder after the call, and the promise it returned
\* ("resolved", "rejected", or "pending" on the events of stream `stream`)
stopRecording(r) ==
    IF ~r.isRecording THEN [r |-> r, promise |-> "resolved", stream |-> 0]
    ELSE IF r.recordingStream = 0
    THEN \* this.recordingStream.on throws, caught
         [r |-> [r EXCEPT !.isRecording = FALSE, !.recordingStream = 0, !.recordingFile = 0],
          promise |-> "rejected", stream |-> 0]
    ELSE [r |-> [r EXCEPT !.isRecording = FALSE,
                          !.sessions[r.recordingStream] =
                              [@ EXCEPT !.stopping = TRUE, !.state = "ending",
                                        !.promise = "pending"]],
          promise |-> "pending", stream |-> r.recordingStream]

\* Variant of writeAudioPacket: without its three early returns
writeAudioPacket_Unguarded(r, packet) ==
    IF r.recordingStream = 0 THEN r
    ELSE LET r1 == IF r.recordingPackets = 0
                   THEN [r EXCEPT !.audioFormat = packet.format] ELSE r
         IN IF packet.samples > 0
            THEN [r1 EXCEPT !.sessions[r.recordingStream].written =
                                @ + BytesPerSample * packet.samples,
                            !.sessions[r.recordingStream].writes = @ + 1,
                            !.sessions[r.recordingStream].samples = @ + packet.samples,
                            !.recordingPackets = @ + 1,
                            !.recordingBytes = @ + BytesPerSample * packet.samples]
            ELSE r1

\* writeAudioPacket(packet)
writeAudioPacket(r, packet) ==
    IF ~r.isRecording THEN r
    ELSE IF r.recordingStream = 0 THEN r
    ELSE IF r.sessions[r.recordingStream].state # "writable" THEN r
    ELSE LET r1 == IF r.recordingPackets = 0
                   THEN [r EXCEPT !.audioFormat = packet.format] ELSE r
         IN IF packet.samples > 0
            THEN [r1 EXCEPT !.sessions[r.recordingStream].written =
                                @ + BytesPerSample * packet.samples,
                            !.sessions[r.recordingStream].writes = @ + 1,
                            !.sessions[r.recordingStream].samples = @ + packet.samples,
                            !.recordingPackets = @ + 1,
                            !.recordingBytes = @ + BytesPerSample * packet.samples]
            ELSE r1

\* ------------------------------------------------- write stream handlers
\* Variant of onStreamOpen: without the headerWritten guard
onStreamOpen_NoGuard(r, i) ==
    LET r1 == [r EXCEPT !.sessions[i].opened = TRUE]
    IN IF r1.recordingStream # 0
       THEN [r1 EXCEPT !.sessions[i].headerWritten = TRUE,
                       !.sessions[r1.recordingStream] = writeWavHeader(@, 0)]
       ELSE r1

\* 'open', bound in startRecording
onStreamOpen(r, i) ==
    LET r1 == [r EXCEPT !.sessions[i].opened = TRUE]
    IN IF ~r1.sessions[i].headerWritten /\ r1.recordingStream # 0
       THEN [r1 EXCEPT !.sessions[i].headerWritten = TRUE,
                       !.sessions[r1.recordingStream] = writeWavHeader(@, 0)]
       ELSE r1

\* stopServer() past its await, or abandoned by the rejection of what it awaited
stopServerResume(r, i, resolved) ==
    IF i \notin r.stopWait THEN r
    ELSE IF resolved /\ r.isRunning
    THEN [r EXCEPT !.stopWait = @ \ {i}, !.closing = TRUE]
    ELSE [r EXCEPT !.stopWait = @ \ {i}]

\* Variant of onStreamFinish: takes the whole file for the data
onStreamFinish_NoHeaderOffset(r, i, ioFails) ==
    LET st == r.sessions[i]
        dataSize == HeaderSize * st.headers + st.written
        st1 == IF ioFails
               THEN [st EXCEPT !.state = "finished", !.outcome = "failed",
                               !.ioFailed = TRUE, !.promise = "rejected"]
               ELSE IF dataSize <= 0
               THEN [st EXCEPT !.state = "finished", !.outcome = "empty",
                               !.promise = "resolved"]
               ELSE [st EXCEPT !.state = "finished", !.outcome = "rewritten",
                               !.promise = "resolved",
                               !.riffSize = dataSize + RiffOverhead, !.dataSize = dataSize]
        r1 == [r EXCEPT !.sessions[i] = st1, !.recordingStream = 0, !.recordingFile = 0,
                        !.recordingPackets = 0, !.recordingBytes = 0]
    IN stopServerResume(r1, i, ~ioFails)

\* Variant of onStreamFinish: a file without data is an error
onStreamFinish_EmptyIsError(r, i, ioFails) ==
    LET st == r.sessions[i]
        fileLength == HeaderSize * st.headers + st.written
        dataSize == fileLength - HeaderSize
        st1 == IF ioFails \/ dataSize <= 0
               THEN [st EXCEPT !.state = "finished", !.outcome = "failed",
                               !.ioFailed = ioFails, !.promise = "rejected"]
               ELSE [st EXCEPT !.state = "finished", !.outcome = "rewritten",
                               !.promise = "resolved",
                               !.riffSize = dataSize + RiffOverhead, !.dataSize = dataSize]
        r1 == [r EXCEPT !.sessions[i] = st1, !.recordingStream = 0, !.recordingFile = 0,
                        !.recordingPackets = 0, !.recordingBytes = 0]
    IN stopServerResume(r1, i, ~ioFails /\ dataSize > 0)

\* 'finish', bound in stopRecording; ioFails: readFileSync or writeFileSync throws
onStreamFinish(r, i, ioFails) ==
    LET st == r.sessions[i]
        fileLength == HeaderSize * st.headers + st.written
        dataSize == fileLength - HeaderSize
        st1 == IF ioFails
               THEN [st EXCEPT !.state = "finished", !.outcome = "failed",
                               !.ioFailed = TRUE, !.promise = "rejected"]
               ELSE IF dataSize <= 0
               THEN [st EXCEPT !.state = "finished", !.outcome = "empty",
                               !.promise = "resolved"]
               ELSE [st EXCEPT !.state = "finished", !.outcome = "rewritten",
                               !.promise = "resolved",
                               !.riffSize = dataSize + RiffOverhead, !.dataSize = dataSize]
        \* the finally block resets the recorder's fields, whatever stream they refer to
        r1 == [r EXCEPT !.sessions[i] = st1, !.recordingStream = 0, !.recordingFile = 0,
                        !.recordingPackets = 0, !.recordingBytes = 0]
    IN stopServerResume(r1, i, ~ioFails)

\* 'error', bound in startRecording and, once stopping, in stopRecording too
onStreamError(r, i) ==
    LET r1 == [r EXCEPT !.sessions[i].state = "errored", !.isRecording = FALSE,
                        !.recordingStream = 0]
    IN IF r.sessions[i].stopping
       THEN stopServerResume([r1 EXCEPT !.recordingFile = 0,
                                        !.sessions[i].promise = "rejected"], i, FALSE)
       ELSE r1

\* --------------------------------------------------------------- server.js
startServer(r) == IF r.isRunning THEN r ELSE [r EXCEPT !.isRunning = TRUE]

\* stopServer() up to its first suspension
stopServer(r) ==
    IF ~r.isRunning THEN r
    ELSE IF r.isRecording
    THEN LET res == stopRecording(r)
         IN IF res.promise = "pending"
            THEN [res.r EXCEPT !.stopWait = @ \cup {res.stream}]
            ELSE res.r
    ELSE [r EXCEPT !.closing = TRUE]

\* A message: one that JSON.parse rejects, one that is no AudioEvent, an
\* AudioEvent without payload, or an AudioEvent with the packet decoded from it
Messages ==
    [kind : {"non-json", "not-audio-event", "no-payload"},
     packet : {[samples |-> 0, format |-> "config"]}]
        \cup [kind : {"audio"}, packet : Packets]

\* Bytes of the payload a packet was decoded from: one byte decodes to no
\* sample, two bytes to one sample
PayloadLength(packet) ==
    IF packet.samples = 0 THEN 1 ELSE BytesPerSample * packet.samples

\* packetCount and totalBytes of a connection handler's closure
NoStats == [packetCount |-> 0, totalBytes |-> 0]

\* Variant of onMessage: counts a message before looking at what it is
onMessage_CountsFirst(r, id, m) ==
    LET packetSize == PayloadLength(m.packet)
        r1 == [r EXCEPT !.stats[id].packetCount = @ + 1,
                        !.totalPacketsReceived = @ + 1,
                        !.stats[id].totalBytes = @ + packetSize,
                        !.totalBytesReceived = @ + packetSize]
    IN IF m.kind = "audio" THEN writeAudioPacket(r1, m.packet) ELSE r1

\* ws.on('message') of connection id
onMessage(r, id, m) ==
    IF m.kind = "audio"
    THEN LET packetSize == PayloadLength(m.packet)
             r1 == [r EXCEPT !.stats[id].packetCount = @ + 1,
                             !.totalPacketsReceived = @ + 1,
                             !.stats[id].totalBytes = @ + packetSize,
                             !.totalBytesReceived = @ + packetSize]
         IN writeAudioPacket(r1, m.packet)
    ELSE r

\* wss.on('connection')
onConnection(r, id) == [r EXCEPT !.clients = @ \cup {id}, !.stats[id] = NoStats]

\* ws.on('close') of connection id
onClientClose(r, id) ==
    stopRecording([r EXCEPT !.clients = @ \ {id}, !.stats[id] = NoStats]).r

RecInit ==
    \* startServer() has run, the console is waiting for a command
    /\ isRunning = TRUE
    /\ closing = FALSE
    /\ clients = {}
    /\ stopWait = {}
    /\ totalPacketsReceived = 0
    /\ totalBytesReceived = 0
    /\ stats = [id \in 1..MaxClients |-> NoStats]
    /\ isRecording = FALSE
    /\ recordingFile = 0
    /\ recordingStream = 0
    /\ recordingPackets = 0
    /\ recordingBytes = 0
    /\ audioFormat = "constructor"
    /\ sessions = <<>>
    /\ lastCmd = "init"

\* ------------------------------------------------- framing and decoding
\* Sample values and byte values the packets are built from
Int16Values == {-32768, -1, 0, 1, 255, 256, 32767}
ByteValues == {0, 1, 127, 128, 255}
Pad == 64

SeqsUpTo(S, n) == UNION {[1..k -> S] : k \in 1..n}

\* new Uint8Array(pcmData.buffer): the bytes of an Int16Array, each element in
\* two's complement with the low byte first
RECURSIVE Uint8View(_)
Uint8View(pcmData) ==
    IF pcmData = <<>>
    THEN <<>>
    ELSE LET u == (Head(pcmData) + 65536) % 65536
         IN <<u % 256, u \div 256>> \o Uint8View(Tail(pcmData))

\* btoa of the binary string of `bytes`: four 6-bit digits (indexes into the
\* base64 alphabet) for three bytes, "=" written as Pad
RECURSIVE btoa(_)
btoa(bytes) ==
    IF Len(bytes) = 0 THEN <<>>
    ELSE IF Len(bytes) = 1
    THEN <<bytes[1] \div 4, (bytes[1] % 4) * 16, Pad, Pad>>
    ELSE IF Len(bytes) = 2
    THEN <<bytes[1] \div 4, (bytes[1] % 4) * 16 + bytes[2] \div 16,
           (bytes[2] % 16) * 4, Pad>>
    ELSE <<bytes[1] \div 4, (bytes[1] % 4) * 16 + bytes[2] \div 16,
           (bytes[2] % 16) * 4 + bytes[3] \div 64, bytes[3] % 64>>
         \o btoa(SubSeq(bytes, 4, Len(bytes)))

arrayBufferToBase64(pcmData) == btoa(Uint8View(pcmData))

\* Buffer.from(payload, 'base64')
RECURSIVE BufferFromBase64(_)
BufferFromBase64(payload) ==
    IF Len(payload) < 4 THEN <<>>
    ELSE LET c == SubSeq(payload, 1, 4)
             b1 == c[1] * 4 + c[2] \div 16
             b2 == (c[2] % 16) * 16 + c[3] \div 4
             b3 == (c[3] % 4) * 64 + c[4]
         IN IF c[3] = Pad THEN <<b1>>
            ELSE IF c[4] = Pad THEN <<b1, b2>>
            ELSE <<b1, b2, b3>> \o BufferFromBase64(SubSeq(payload, 5, Len(payload)))

\* Variant of readInt16LE: the high byte first
readInt16BE(audioBuffer, i) ==
    LET u == 256 * audioBuffer[i + 1] + audioBuffer[i + 2]
    IN IF u >= 32768 THEN u - 65536 ELSE u

\* audioBuffer.readInt16LE(i), i counted from 0
readInt16LE(audioBuffer, i) ==
    LET u == audioBuffer[i + 1] + 256 * audioBuffer[i + 2]
    IN IF u >= 32768 THEN u - 65536 ELSE u

\* for (let i = 0; i < audioBuffer.length; i += 2) if (i + 1 < length) push
RECURSIVE decodeLoop(_, _)
decodeLoop(audioBuffer, i) ==
    IF i < Len(audioBuffer)
    THEN (IF i + 1 < Len(audioBuffer)
          THEN <<readInt16LE(audioBuffer, i)>>
          ELSE <<>>) \o decodeLoop(audioBuffer, i + 2)
    ELSE <<>>

decodePayload(payload) == decodeLoop(BufferFromBase64(payload), 0)

NoPacket ==
    [phase |-> "idle", origin |-> "none", samples |-> <<>>, bytes |-> <<>>,
     payload |-> <<>>, decoded |-> <<>>]

\* What is about to be sent: the samples of one capture buffer, or the bytes of
\* a payload some other sender made
PacketInputs ==
    {[NoPacket EXCEPT !.phase = "captured", !.origin = "framer", !.samples = x]
        : x \in SeqsUpTo(Int16Values, MaxSamples)}
    \cup
    {[NoPacket EXCEPT !.phase = "captured", !.origin = "other", !.bytes = b]
        : b \in SeqsUpTo(ByteValues, MaxBytes)}

\* ---------------------------------------------------------------- actions
ClientInit ==
    /\ status = DISCONNECTED
    /\ retryCount = 0
    /\ ws = "null"
    /\ orphans = NoOrphans
    /\ retryTimeout = "null"
    /\ staleTimers = 0
    /\ lastSched = <<0, 0>>
    /\ ctorThrows \in BOOLEAN
    /\ mediaStream = FALSE
    /\ audioContext = FALSE
    /\ source = FALSE
    /\ processor = FALSE
    /\ audioIsRecording = FALSE
    /\ unreleased = 0
    \* ngOnInit has run: the BehaviorSubject replayed DISCONNECTED to the subscriber
    /\ networkStatus = DISCONNECTED
    /\ subscribed = TRUE
    /\ pendingGrants = 0
    /\ lastOp = "init"
    /\ txd = FALSE
    /\ trace = <<>>

Init == RecInit /\ ClientInit /\ codec = NoPacket /\ needDrain = {}

\* The handler's result is computed once, then committed
Step(c, op) == \E done \in {c} : WithinBounds(done) /\ Commit(done, op)

\* The rest of TranscriptionComponent.connect() after the await: startAudioCapture
\* and, unless it threw, wsService.connect().  `op` is the handler's name, with
\* ":connect" when wsService.connect() was called.
AfterAccess(c, outcome, handler) ==
    LET r == startAudioCapture(c, outcome)
    IN IF r.threw THEN [c |-> r.c, op |-> handler]
       ELSE [c |-> connect(r.c), op |-> IF handler = "Grant" THEN "Grant:connect"
                                        ELSE "ClickConnect:connect"]

\* The Connect button: TranscriptionComponent.connect().  With a stream held
\* requestMicrophoneAccess returns at once; otherwise the call waits for getUserMedia.
ClickConnect ==
    /\ subscribed
    /\ IF mediaStream
       THEN \E outcome \in CaptureOutcomes :
                LET r == AfterAccess(Client, outcome, "ClickConnect")
                IN Step(r.c, r.op)
       ELSE Step([Client EXCEPT !.pendingGrants = @ + 1], "ClickConnect")

\* getUserMedia resolves: this.mediaStream = stream (a stream already held is
\* overwritten, never stopped), then the rest of connect().
Grant ==
    /\ pendingGrants > 0
    /\ \E outcome \in CaptureOutcomes :
         LET c == [Client EXCEPT !.pendingGrants = @ - 1,
                                 !.unreleased = IF mediaStream THEN @ + 1 ELSE @,
                                 !.mediaStream = TRUE]
             r == AfterAccess(c, outcome, "Grant")
         IN Step(r.c, r.op)

\* getUserMedia rejects: both catch blocks, no state change.
Deny ==
    /\ pendingGrants > 0
    /\ Step([Client EXCEPT !.pendingGrants = @ - 1], "Deny")

\* The Disconnect button: TranscriptionComponent.disconnect()
ClickDisconnect ==
    /\ subscribed
    /\ Step(stopMicrophone(disconnect(Client)), "ClickDisconnect")

ngOnDestroy ==
    /\ subscribed
    /\ Step(stopMicrophone(disconnect([Client EXCEPT !.subscribed = FALSE])), "ngOnDestroy")

\* processor.onaudioprocess: one captured buffer
AudioProcess ==
    /\ processor
    /\ Step(IF ~audioIsRecording THEN Client ELSE sendJson(Client), "AudioProcess")

SockOpen ==
    \E x \in SocketNames :
        /\ HasSocket(Client, x)
        /\ PhaseOf(Client, x) = "connecting"
        /\ Step(onopen(SetPhase(Client, x, "open")), "SockOpen")

\* The browser fails the connection (it could not be established, it was
\* closed before it was established, or it broke): one task sets readyState
\* CLOSED, fires error, then fires close with code 1006.
SockFail ==
    \E x \in SocketNames :
        /\ HasSocket(Client, x)
        /\ Step(onclose(onerror(RemoveSocket(Client, x)), 1006), "SockFail")

\* A close event with no error event before it: the closing handshake of a
\* connection that was open ends, or that connection is lost.  A socket that
\* never opened ends by SockFail only.
SockClose ==
    \E x \in SocketNames, code \in CloseCodes :
        /\ HasSocket(Client, x)
        /\ PhaseOf(Client, x) \in {"open", "closing"}
        /\ Step(onclose(RemoveSocket(Client, x), code),
                IF code = NormalClosure THEN "SockCloseNormal" ELSE "SockCloseAbnormal")

\* The server starts the closing handshake: readyState becomes CLOSING, no handler runs.
RemoteClosing ==
    \E x \in SocketNames :
        /\ HasSocket(Client, x)
        /\ PhaseOf(Client, x) = "open"
        /\ Step(SetPhase(Client, x, "closing"), "RemoteClosing")

\* A retry timer runs: the one this.retryTimeout names, or one whose id was overwritten.
TimerFire ==
    \/ /\ retryTimeout = "pending"
       /\ Step(attemptConnection([Client EXCEPT !.retryTimeout = "fired"]), "TimerFire")
    \/ /\ staleTimers > 0
       /\ Step(attemptConnection([Client EXCEPT !.staleTimers = @ - 1]), "TimerFire")

Next ==
    \/ ClickConnect
    \/ Grant
    \/ Deny
    \/ ClickDisconnect
    \/ ngOnDestroy
    \/ AudioProcess
    \/ SockOpen
    \/ SockFail
    \/ SockClose
    \/ RemoteClosing
    \/ TimerFire

Spec == Init /\ [][Next]_vars

\* ------------------------------------------- the client under fairness
\* What the browser owes a socket that is not open: a CONNECTING socket opens
\* or fails, a socket closed before it opened fails, a CLOSING socket closes.
Settles ==
    \E x \in SocketNames :
        /\ HasSocket(Client, x)
        /\ \/ /\ PhaseOf(Client, x) = "connecting"
              /\ Step(onopen(SetPhase(Client, x, "open")), "SockOpen")
           \/ /\ PhaseOf(Client, x) \in {"connecting", "aborting"}
              /\ Step(onclose(onerror(RemoveSocket(Client, x)), 1006), "SockFail")
           \/ /\ PhaseOf(Client, x) = "closing"
              /\ \E code \in CloseCodes :
                   Step(onclose(RemoveSocket(Client, x), code),
                        IF code = NormalClosure THEN "SockCloseNormal"
                        ELSE "SockCloseAbnormal")

\* A step the event loop owes: a pending timer runs, a socket settles
EnvStep == TimerFire \/ Settles

\* The client without overlapping getUserMedia requests
NextLive == Next /\ pendingGrants' <= MaxPendingLive

SpecLive == Init /\ [][NextLive]_vars /\ WF_vars(EnvStep)

\* -------------------------------------------------------- server actions
RecBounds(r) ==
    /\ Len(r.sessions) <= MaxSessions
    /\ r.recordingPackets <= MaxPackets
    /\ r.totalPacketsReceived <= MaxReceived

StepRec(r, cmd) == RecBounds(r) /\ CommitRec(r, cmd)

\* console: start
CmdStart == StepRec(startServer(Server), "start")

\* console: stop
CmdStop == StepRec(stopServer(Server), "stop")

\* console: startrecording
CmdStartRecording ==
    \E throws \in BOOLEAN :
        StepRec(startRecording(Server, isRunning, throws), "startrecording")

\* console: stoprecording
CmdStopRecording == StepRec(stopRecording(Server).r, "stoprecording")

\* wss.on('connection')
Connection ==
    \E id \in 1..MaxClients :
        /\ isRunning /\ ~closing
        /\ id \notin clients
        /\ StepRec(onConnection(Server, id), "connection")

\* ws.on('message') of a connected client
Message ==
    \E id \in clients, m \in Messages :
        StepRec(onMessage(Server, id, m),
                IF m.kind # "audio" THEN "message:discarded"
                ELSE IF m.packet.samples = 0 THEN "message:audio:empty"
                ELSE "message:audio")

\* ws.on('close') of a connected client
ClientClose ==
    \E id \in clients : StepRec(onClientClose(Server, id), "close")

\* the callback of wss.close, once every connection has closed
ServerClosed ==
    /\ closing /\ clients = {}
    /\ StepRec([Server EXCEPT !.isRunning = FALSE, !.closing = FALSE], "closed")

StreamOpen ==
    \E i \in 1..Len(sessions) :
        /\ ~sessions[i].opened /\ sessions[i].state \in {"writable", "ending"}
        /\ StepRec(onStreamOpen(Server, i), "stream:open")

\* everything written has been flushed to the file of a stream that was ended
StreamFinish ==
    \E i \in 1..Len(sessions), ioFails \in BOOLEAN :
        /\ sessions[i].opened /\ sessions[i].state = "ending"
        /\ StepRec(onStreamFinish(Server, i, ioFails), "stream:finish")

\* opening the file or a write to it fails
StreamError ==
    \E i \in 1..Len(sessions) :
        /\ sessions[i].state \in {"writable", "ending"}
        /\ StepRec(onStreamError(Server, i), "stream:error")

NextRec ==
    \/ CmdStart
    \/ CmdStop
    \/ CmdStartRecording
    \/ CmdStopRecording
    \/ Connection
    \/ Message
    \/ ClientClose
    \/ ServerClosed
    \/ StreamOpen
    \/ StreamFinish
    \/ StreamError

InitRec == Init /\ ctorThrows = FALSE

SpecRec == InitRec /\ [][NextRec]_vars

\* ---------------------------------------------- the writer and its sink
\* ws.on('message') with an AudioEvent, where recordingStream.write() may
\* return false (canContinue): the handler registers an empty 'drain' listener
\* and goes on.
SinkMessage ==
    \E id \in clients, packet \in Packets, canContinue \in BOOLEAN :
        LET r == onMessage(Server, id, [kind |-> "audio", packet |-> packet])
            issued == r.recordingPackets > recordingPackets
        IN /\ RecBounds(r)
           /\ AssignRec(r, IF packet.samples = 0 THEN "message:audio:empty"
                           ELSE "message:audio")
           /\ needDrain' = IF issued /\ ~canContinue
                            THEN needDrain \cup {recordingStream}
                            ELSE needDrain

\* 'drain' of a stream whose buffer was full
SinkDrain ==
    \E i \in needDrain :
        /\ sessions[i].state \in {"writable", "ending"}
        /\ AssignRec(Server, "stream:drain")
        /\ needDrain' = needDrain \ {i}

NextSink ==
    \/ CmdStartRecording
    \/ CmdStopRecording
    \/ Connection
    \/ SinkMessage
    \/ SinkDrain
    \/ StreamOpen
    \/ StreamFinish

SpecSink == InitRec /\ [][NextSink]_vars

\* ------------------------------------------------------- packet actions
\* createAudioPacket(pcmData)
CreateAudioPacket ==
    /\ codec.phase = "captured" /\ codec.origin = "framer"
    /\ codec' = [codec EXCEPT !.phase = "sent",
                               !.bytes = Uint8View(codec.samples),
                               !.payload = arrayBufferToBase64(codec.samples)]
    /\ UNCHANGED <<clientVars, recVars, needDrain>>

\* a sender other than AudioService puts its bytes in a payload
OtherPacket ==
    /\ codec.phase = "captured" /\ codec.origin = "other"
    /\ codec' = [codec EXCEPT !.phase = "sent", !.payload = btoa(codec.bytes)]
    /\ UNCHANGED <<clientVars, recVars, needDrain>>

\* the decode step of ws.on('message')
DecodePacket ==
    /\ codec.phase = "sent"
    /\ codec' = [codec EXCEPT !.phase = "decoded",
                               !.decoded = decodePayload(codec.payload)]
    /\ UNCHANGED <<clientVars, recVars, needDrain>>

NextCodec == CreateAudioPacket \/ OtherPacket \/ DecodePacket

InitCodec ==
    RecInit /\ ClientInit /\ ctorThrows = FALSE /\ codec \in PacketInputs /\ needDrain = {}

SpecCodec == InitCodec /\ [][NextCodec]_vars

\* ------------------------------------------------------ reading the trace
Entries(t, kind) == SelectSeq(t, LAMBDA e : e.k = kind)
\* the states delivered on the status stream, in order
Statuses(t) == LET u == Entries(t, "status") IN [i \in 1..Len(u) |-> u[i].s]
\* the delays of the retry timers scheduled, in order
Delays(t) == LET u == Entries(t, "timer") IN [i \in 1..Len(u) |-> u[i].n]
AbnormalCloses(t) == Len(SelectSeq(t, LAMBDA e : e.k = "close" /\ e.n # NormalClosure))
NormalCloses(t) == Len(SelectSeq(t, LAMBDA e : e.k = "close" /\ e.n = NormalClosure))
Opens(t) == Len(SelectSeq(t, LAMBDA e : e.k = "status" /\ e.s = CONNECTED))
IsPrefix(p, q) == Len(p) <= Len(q) /\ \A i \in 1..Len(p) : p[i] = q[i]

ConnectCalls == {"Grant:connect", "ClickConnect:connect"}
DisconnectCalls == {"ClickDisconnect", "ngOnDestroy"}
CloseEvents == {"SockCloseNormal", "SockCloseAbnormal", "SockFail"}
WsVars == <<status, retryCount, ws, orphans, retryTimeout, staleTimers, lastSched>>

\* ------------------------------------------------------------------ claims

\* C1 (as claimed): right after Disconnect() the state is Disconnected,
\* RetryCounter is 0 and no retry timer is pending, so that no attempt scheduled
\* before the call can run after it.
C1_DisconnectCancelsEveryTimer ==
    (~ctorThrows /\ lastOp \in DisconnectCalls) =>
        /\ status = DISCONNECTED
        /\ retryCount = 0
        /\ PendingTimers(Client) = 0

\* C2 (as claimed): a Send transmits if and only if the state is Connected.
C2_SendIffConnected ==
    lastOp = "AudioProcess" => (txd <=> status = CONNECTED)

\* C2 (amended): a frame reaches the socket only in the handler that offers it,
\* only when the state is Connected and the handle is open; a Send in any other
\* state transmits nothing, and nothing is transmitted by any later handler.
C2_SendOnlyIfConnected ==
    /\ txd => (lastOp = "AudioProcess" /\ status = CONNECTED /\ ws = "open")
    /\ (lastOp = "AudioProcess" /\ status # CONNECTED) => ~txd

C2_Witness ==
    /\ lastOp = "AudioProcess"
    /\ ~txd
    /\ status = RECONNECTING
    /\ ws = "connecting"

\* C3 (as claimed): Connect() while the state is Connected or Connecting changes
\* nothing; in any other state it sets RetryCounter to 0 and opens one transport.
C3_ConnectByState ==
    [][(~ctorThrows /\ lastOp' \in ConnectCalls) =>
          IF status \in {CONNECTED, CONNECTING}
          THEN UNCHANGED WsVars
          ELSE /\ retryCount' = 0
               /\ LiveSockets(Client)' = LiveSockets(Client) + 1]_vars

\* C3 (amended): Connect() while the handle refers to an open or connecting
\* transport changes nothing; otherwise it resets RetryCounter and begins exactly
\* one attempt: state Connecting, RetryCounter 0 and one new transport, no timer
\* touched (or, where the transport constructor throws, state Error,
\* RetryCounter 1 and one retry timer scheduled).
C3_ConnectByHandle ==
    [][lastOp' \in ConnectCalls =>
          IF ws \in {"open", "connecting"}
          THEN UNCHANGED WsVars
          ELSE IF ctorThrows
          THEN /\ status' = ERROR
               /\ retryCount' = 1
               /\ LiveSockets(Client)' = LiveSockets(Client)
               /\ retryTimeout' = "pending"
               /\ lastSched' = <<1, 1000>>
          ELSE /\ status' = CONNECTING
               /\ retryCount' = 0
               /\ ws' = "connecting"
               /\ LiveSockets(Client)' = LiveSockets(Client) + 1
               /\ UNCHANGED <<retryTimeout, staleTimers, lastSched>>]_vars

C3_Witness ==
    /\ lastOp = "ClickConnect:connect"
    /\ ws = "open"
    /\ status = CONNECTED
    /\ retryCount = 0

\* A run in which every attempt so far ended in an abnormal close: recorded
\* from a Connect() in the quiescent Disconnected state, no open, no normal close.
FailingRun == trace # <<>> /\ Opens(trace) = 0 /\ NormalCloses(trace) = 0

C5_BackoffDelays ==
    /\ [](/\ lastSched \in {<<0, 0>>, <<1, 1000>>, <<2, 2000>>, <<3, 4000>>, <<4, 8000>>}
          /\ lastSched[2] <= 10000
          /\ FailingRun => IsPrefix(Delays(trace), <<1000, 2000, 4000, 8000>>))
    /\ [][lastSched' # lastSched =>
             /\ lastSched'[1] = retryCount'
             /\ retryTimeout' = "pending"]_vars

C5_Witness ==
    /\ lastSched = <<4, 8000>>
    /\ retryCount = 4
    /\ FailingRun
    /\ Delays(trace) = <<1000, 2000, 4000, 8000>>

\* A run that reached Connected
OpenedRun == trace # <<>> /\ trace[Len(trace)] = StatusEntry(CONNECTED)

\* C6 (as claimed): the states delivered after Connect() are exactly
\* <<Connecting, Connected>> when the first open succeeds and exactly
\* <<Connecting, Reconnecting, Reconnecting, Connected>>, with delays 1000 and
\* 2000 ms, when the open fails twice and then succeeds.
C6_StatusSequence ==
    OpenedRun =>
        /\ AbnormalCloses(trace) = 0 => Statuses(trace) = <<CONNECTING, CONNECTED>>
        /\ AbnormalCloses(trace) = 2 =>
             /\ Statuses(trace) = <<CONNECTING, RECONNECTING, RECONNECTING, CONNECTED>>
             /\ Delays(trace) = <<1000, 2000>>

\* C6 (amended): <<Connecting, Connected>> when the first open succeeds; when
\* the open fails twice and then succeeds, each failure also delivers Error
\* (the error event of the failed open):
\* <<Connecting, Error, Reconnecting, Error, Reconnecting, Connected>>, the
\* retries being scheduled 1000 and 2000 ms after the failures.
C6_StatusSequenceWithError ==
    OpenedRun =>
        /\ AbnormalCloses(trace) = 0 => Statuses(trace) = <<CONNECTING, CONNECTED>>
        /\ AbnormalCloses(trace) = 2 =>
             /\ Statuses(trace) =
                    <<CONNECTING, ERROR, RECONNECTING, ERROR, RECONNECTING, CONNECTED>>
             /\ Delays(trace) = <<1000, 2000>>
             /\ trace = <<StartEntry,
                          StatusEntry(CONNECTING), StatusEntry(ERROR), CloseEntry(1006),
                          TimerEntry(1000),
                          StatusEntry(RECONNECTING), StatusEntry(ERROR), CloseEntry(1006),
                          TimerEntry(2000),
                          StatusEntry(RECONNECTING), StatusEntry(CONNECTED)>>

C6_Witness ==
    /\ OpenedRun
    /\ AbnormalCloses(trace) = 2
    /\ lastOp = "SockOpen"
    /\ status = CONNECTED

\* C7: a close event with code 1000, whatever the state it arrives in, sets the
\* state Disconnected, schedules no timer and leaves RetryCounter as it is; a
\* close event with any other code runs the reconnection procedure: below 4
\* retries it increments RetryCounter and schedules one timer, at 4 it sets
\* the state Disconnected and RetryCounter 0.
C7_CloseCodeDecides ==
    [][/\ lastOp' = "SockCloseNormal" =>
            /\ status' = DISCONNECTED
            /\ retryCount' = retryCount
            /\ UNCHANGED <<retryTimeout, staleTimers, lastSched>>
            /\ ws' = "null"
       /\ lastOp' \in {"SockCloseAbnormal", "SockFail"} =>
            /\ ws' = "null"
            /\ IF retryCount < maxRetries
               THEN /\ retryCount' = retryCount + 1
                    /\ retryTimeout' = "pending"
                    /\ PendingTimers(Client)' = PendingTimers(Client) + 1
                    /\ status' = IF lastOp' = "SockFail" THEN ERROR ELSE status
               ELSE /\ retryCount' = 0
                    /\ status' = DISCONNECTED
                    /\ UNCHANGED <<retryTimeout, staleTimers, lastSched>>]_vars

C7_Witness ==
    /\ lastOp = "SockCloseNormal"
    /\ status = DISCONNECTED
    /\ retryCount > 0
    /\ retryTimeout = "pending"

\* C8 (as claimed): after every handler, if the observed state is Disconnected
\* then capture is inactive and the microphone handle is released.
C8_DisconnectedMeansMicReleased ==
    (subscribed /\ networkStatus = DISCONNECTED) => (~audioIsRecording /\ ~mediaStream)

\* The recorder's session: its fields and the streams it created
SessionVars == <<isRecording, recordingFile, recordingStream, recordingPackets,
                 recordingBytes, audioFormat, sessions>>

\* C9: startRecording called while a recording is active, or while the server
\* is not running, changes nothing: isRecording, recordingFile,
\* recordingPackets, recordingBytes, audioFormat, the stream and the files are
\* as before, no file is created.  A stream and its file are created only by a
\* startRecording called with no recording active and the server running, and
\* the recorder is then recording to that stream alone.
C9_StartIsNoOpWhenBusyOrStopped ==
    [][/\ (lastCmd' = "startrecording" /\ (isRecording \/ ~isRunning)) =>
             UNCHANGED SessionVars
       /\ Len(sessions') # Len(sessions) =>
             /\ lastCmd' = "startrecording" /\ ~isRecording /\ isRunning
             /\ Len(sessions') = Len(sessions) + 1
             /\ isRecording' /\ recordingStream' = Len(sessions') /\ recordingFile' = Len(sessions')
             /\ recordingPackets' = 0 /\ recordingBytes' = 0
             /\ \A i \in 1..Len(sessions) : sessions'[i] = sessions[i]]_vars

C9_Witness ==
    /\ lastCmd = "startrecording"
    /\ isRecording
    /\ recordingPackets > 0
    /\ Len(sessions) = 1

\* C10: writeAudioPacket called with no recording active (before any
\* startRecording, after stopRecording while the stream is still flushing, after
\* a stream error) writes nothing to any stream and leaves recordingPackets and
\* recordingBytes unchanged.
C10_NoWriteWhenInactive ==
    [][(lastCmd' \in {"message:audio", "message:audio:empty"} /\ ~isRecording) =>
           UNCHANGED <<sessions, recordingPackets, recordingBytes, audioFormat>>]_vars

C10_Witness ==
    /\ lastCmd = "message:audio"
    /\ ~isRecording
    /\ recordingStream # 0
    /\ sessions[recordingStream].state = "ending"
    /\ recordingPackets > 0

\* Length of the file of stream st once everything written to it is flushed
FileLength(st) == HeaderSize * st.headers + st.written

\* C11: a stream whose stopRecording completed with the header rewritten holds
\* fileLength - 44 data bytes, its RIFF size field is 36 + dataSize and its data
\* size field is dataSize; when its N packets carried K samples each the file
\* is 44 + 2*N*K bytes long and the fields are 36 + 2*N*K and 2*N*K.
C11_FinalizedSizes ==
    \A i \in 1..Len(sessions) :
        LET st == sessions[i]
        IN st.outcome = "rewritten" =>
              /\ st.state = "finished"
              /\ st.writes > 0
              /\ st.dataSize = FileLength(st) - 44
              /\ st.riffSize = 36 + st.dataSize
              /\ \A K \in PacketSamples \ {0} :
                    st.samples = st.writes * K =>
                        /\ FileLength(st) = 44 + 2 * st.writes * K
                        /\ st.riffSize = 36 + 2 * st.writes * K
                        /\ st.dataSize = 2 * st.writes * K

C11_Witness ==
    /\ Len(sessions) = 1
    /\ sessions[1].outcome = "rewritten"
    /\ sessions[1].writes = 2
    /\ lastCmd = "stream:finish"

\* C12: a stream stopped with nothing written to it and flushed without an
\* I/O failure is left with exactly the 44-byte placeholder header, size fields
\* 36 and 0, not rewritten, and its stopRecording promise is resolved.
C12_EmptyRecording ==
    \A i \in 1..Len(sessions) :
        LET st == sessions[i]
        IN (st.state = "finished" /\ st.writes = 0) =>
              /\ FileLength(st) = 44
              /\ st.headers = 1
              /\ st.riffSize = 36
              /\ st.dataSize = 0
              /\ st.outcome # "rewritten"
              /\ ~st.ioFailed => (st.outcome = "empty" /\ st.promise = "resolved")

C12_Witness ==
    /\ Len(sessions) = 1
    /\ sessions[1].state = "finished"
    /\ sessions[1].writes = 0
    /\ sessions[1].outcome = "empty"
    /\ sessions[1].promise = "resolved"
    /\ lastCmd = "stream:finish"

\* Streams whose stopRecording promise is still pending
StopsPending == {i \in 1..Len(sessions) : sessions[i].promise = "pending"}

\* C13 (as claimed): when a stopRecording promise settles (the header was
\* rewritten, the recording was empty, the rewrite failed, or the stream
\* failed) the recorder holds no session: isRecording is false, recordingStream
\* and recordingFile are null.
C13_NoSessionAfterStop ==
    [][\A i \in StopsPending :
          sessions'[i].promise # "pending" =>
              /\ ~isRecording'
              /\ recordingStream' = 0
              /\ recordingFile' = 0]_vars

\* C14 (as claimed): a startRecording issued while a stopRecording promise is
\* pending is not accepted: it creates no stream and starts no recording.
C14_NoStartWhileStopPending ==
    [][(lastCmd' = "startrecording" /\ StopsPending # {}) =>
          /\ Len(sessions') = Len(sessions)
          /\ ~isRecording']_vars

\* C15: a message that JSON.parse rejects, that is no AudioEvent, or that is an
\* AudioEvent without payload changes nothing: the recorder and every stream,
\* the connection's and the server's packet and byte counters are unchanged,
\* and the connection stays among the open ones.
C15_DiscardedMessage ==
    [][lastCmd' = "message:discarded" =>
          /\ UNCHANGED SessionVars
          /\ UNCHANGED <<totalPacketsReceived, totalBytesReceived, stats>>
          /\ UNCHANGED <<clients, isRunning, closing, stopWait>>]_vars

C15_Witness ==
    /\ lastCmd = "message:discarded"
    /\ isRecording
    /\ recordingPackets = 1
    /\ totalPacketsReceived = 1
    /\ clients # {}

\* C16: while a recording is active and another connection stays open, the
\* close of one connection leaves the recording session as it was: still
\* active, same file, same stream, same counts.
C16_CloseOfOneKeepsSession ==
    [][(lastCmd' = "close" /\ isRecording /\ clients' # {}) =>
          /\ isRecording'
          /\ UNCHANGED SessionVars]_vars

\* C17: decoding the payload that createAudioPacket made of a sample sequence
\* gives that sequence back, same length, same order, -32768 and 32767
\* included; whatever the payload's byte count n, the decoder gives n div 2
\* samples, which are the byte pairs in order without a trailing odd byte.
C17_RoundTrip ==
    codec.phase = "decoded" =>
        /\ codec.origin = "framer" => codec.decoded = codec.samples
        /\ Len(codec.decoded) = Len(codec.bytes) \div 2
        /\ Uint8View(codec.decoded)
              = SubSeq(codec.bytes, 1, 2 * (Len(codec.bytes) \div 2))

C17_Witness ==
    /\ codec.phase = "decoded"
    /\ codec.origin = "framer"
    /\ codec.samples = <<-32768, 32767>>
    /\ codec.decoded = <<-32768, 32767>>

\* C18: whatever the state of the recorder, a call of stopRecording (from the
\* console, from a connection's close handler or from stopServer) does not
\* fail: the promise it returns is not rejected by the call itself.
C18_StopNeverRaises ==
    [][lastCmd' \in {"stoprecording", "close", "stop"} =>
          stopRecording(Server).promise # "rejected"]_vars

\* C19: the service holds a socket whenever its status is Connecting,
\* Connected or Reconnecting, and holds none when its status is Disconnected
\* or Error.
C19_HandleMatchesStatus ==
    /\ status \in {CONNECTING, CONNECTED, RECONNECTING} => ws # "null"
    /\ status \in {DISCONNECTED, ERROR} => ws = "null"

\* C20: at most one retry timer is pending at any time.
C20_OneTimerPending == PendingTimers(Client) <= 1

\* C21: an abnormal close that arrives while the status is Connected moves the
\* status, in that same step, to Reconnecting or to Disconnected.
C21_AbnormalCloseLeavesConnected ==
    [][(lastOp' = "SockCloseAbnormal" /\ status = CONNECTED) =>
          status' \in {RECONNECTING, DISCONNECTED}]_vars

\* A call of wsService.connect() that passes both early returns
ConnectBegins ==
    /\ lastOp' \in {"Grant:connect", "ClickConnect:connect"}
    /\ ws \notin {"open", "connecting"}

\* The parts of C22 that do not depend on what connect() leaves behind
RetryCountSteps ==
    /\ retryCount' \in 0..maxRetries
    /\ lastOp' = "SockOpen" => retryCount' = 0
    /\ retryCount' > retryCount =>
          /\ retryCount' = retryCount + 1
          /\ lastSched' = <<retryCount', RetryDelay(retryCount')>>
          /\ PendingTimers(Client)' > 0

\* C22 as stated: retryCount stays within 0..4, is 0 after every connect()
\* that begins an attempt and after every open, and grows only by 1, in the
\* step that schedules a retry.
C22_RetryCount ==
    [][/\ RetryCountSteps
       /\ ConnectBegins => retryCount' = 0]_vars

\* C22 amended: after a connect() that begins an attempt retryCount is 0 when
\* the socket was created, and 1 when new WebSocket threw, because the catch
\* block has already scheduled the first retry.
C22_RetryCountUnlessCtorThrows ==
    [][/\ RetryCountSteps
       /\ ConnectBegins => retryCount' = (IF ctorThrows THEN 1 ELSE 0)]_vars

C22_Witness ==
    /\ lastOp = "SockOpen"
    /\ lastSched[1] = 2
    /\ retryCount = 0
    /\ status = CONNECTED
    /\ ws = "open"

\* C23: every stream an accepted startRecording created has had the 44-byte
\* header written to it exactly once, by the synchronous path or by the
\* 'open' handler, and no sample byte was written to it before the header.
C23_HeaderOnce ==
    \A i \in 1..Len(sessions) :
        /\ sessions[i].headers = 1
        /\ sessions[i].headerWritten
        /\ sessions[i].headerAt = 0

C23_Witness ==
    /\ lastCmd = "stream:open"
    /\ Len(sessions) = 1
    /\ sessions[1].opened
    /\ sessions[1].headers = 1
    /\ sessions[1].written > 0

\* A message that carried an AudioEvent with a payload
AudioMessages == {"message:audio", "message:audio:empty"}

\* C24: a packet that follows another packet of the same active session does
\* not change the session's format, whatever the sample counts of the two.
C24_FormatFixedByFirstPacket ==
    [][(/\ lastCmd \in AudioMessages
        /\ lastCmd' \in AudioMessages
        /\ isRecording
        /\ recordingStream # 0
        /\ sessions[recordingStream].state = "writable") =>
          audioFormat' = audioFormat]_vars

\* C25: while a stream's last write() has returned false and 'drain' has not
\* been emitted, no further write is issued to that stream.
C25_NoWriteBeforeDrain ==
    [][\A i \in needDrain : sessions'[i].writes = sessions[i].writes]_vars

UserOps ==
    {"ClickConnect", "ClickConnect:connect", "Grant", "Grant:connect", "Deny",
     "ClickDisconnect", "ngOnDestroy"}
UserCall == lastOp' \in UserOps

Settled == status \in {CONNECTED, DISCONNECTED}

C28_FinishLeavesNewerSession ==
    [][\A i \in 1..Len(sessions) :
          (/\ sessions[i].state = "ending"
           /\ sessions'[i].state = "finished"
           /\ recordingStream \notin {0, i}) =>
              UNCHANGED <<recordingStream, recordingFile, recordingPackets,
                          recordingBytes>>]_vars

\* A step made by an event of a socket
SocketOps == {"SockOpen", "SockFail", "SockCloseNormal", "SockCloseAbnormal"}

\* C29: after disconnect(), with the socket it closed as the only live socket
\* and no timer pending, an event of that socket leaves the status
\* Disconnected and retryCount 0, schedules no timer and opens no socket.
C29_QuietAfterDisconnect ==
    [][(/\ lastOp = "ClickDisconnect"
        /\ PendingTimers(Client) = 0
        /\ LiveSockets(Client) = 1
        /\ lastOp' \in SocketOps) =>
          /\ status' = DISCONNECTED
          /\ retryCount' = 0
          /\ PendingTimers(Client)' = 0
          /\ ws' = "null"]_vars

\* C30: while the current socket is CONNECTING, a close event (which only a
\* socket that was open can deliver, so an earlier one) leaves this.ws and
\* the status as the new attempt set them.
C30_OldSocketLeavesNewOne ==
    [][(/\ ws = "connecting"
        /\ lastOp' \in {"SockCloseNormal", "SockCloseAbnormal"}) =>
          /\ ws' = "connecting"
          /\ status' = status]_vars

\* C31: every socket that is CONNECTING or OPEN is the one this.ws refers to.
C31_OneTransport == orphans["connecting"] + orphans["open"] = 0

\* C32: every stream getUserMedia has granted is the one this.mediaStream
\* refers to, or its tracks have been stopped.
C32_OneMicrophoneHandle == unreleased = 0

=============================================================================
